---- MODULE Spec2Model ----
(***************************************************************************)
(* Model of the swap-execution pipeline of the wallet tracker              *)
(* (SwapExecutor: constructor, initializeProvider, executeSwap,            *)
(* validateSwapParameters, verifyBalanceAndAllowance,                      *)
(* calculateSwapDetails, buildSwapTransaction, emergencyStop,              *)
(* resumeTrading).                                                         *)
(*                                                                         *)
(* executeSwap is an async function: it runs on the event loop in          *)
(* segments separated by its awaits.  One action below is one segment:     *)
(* it consumes the answer of the pending await and runs the code up to     *)
(* the next await (or to the return).  emergencyStop, resumeTrading and    *)
(* initializeProvider are calls of the operator that the event loop may    *)
(* run between two segments.  pc names the await the call is suspended on. *)
(* rpc is the set of network calls the current executeSwap call has        *)
(* issued so far.                                                          *)
(***************************************************************************)
EXTENDS Integers, FiniteSets, Sequences, TLC

VARIABLES
    privateKey,     \* this.privateKey, by shape: "missing", "malformed", "valid"
    isEnabled,      \* this.isEnabled
    config,         \* this.config: emergencyStop, enableRealTrading
    stats,          \* this.stats
    calls,          \* number of executeSwap calls started so far
    pc,             \* where the executeSwap call in progress is suspended
    req,            \* swapParams of the call in progress
    rpc,            \* network calls issued by the call in progress
    balRead,        \* balance returned by getBalance / balanceOf (-1: not read)
    required,       \* requiredAmount of verifyBalanceAndAllowance (-1: not computed)
    allowRead,      \* allowance returned by allowance() (-1: not read)
    simulated,      \* stage 6: "none", "ok", "reverted" (estimateGas threw),
                    \* "noFeeData" (getFeeData threw)
    tx,             \* the transaction built by buildSwapTransaction
    gasPrice,       \* gasPrice answered by getFeeData, in gwei (-1: not read)
    receipt,        \* what txResponse.wait() answered ("none": not yet)
    result,         \* what the call handed to its caller
    senders,        \* concurrent executeSwap calls at stage 8, by caller
    chain,          \* the node's view of the signer: the next pending nonce
    clock,          \* Date.now()
    notifier,       \* NotificationService: lastNotificationTime,
                    \* rateLimitDelay, retryAttempts, isEnabled
    alerts,         \* sendTransactionAlert calls, by caller
    connection,     \* the wallet tracker's connection: isConnected,
                    \* reconnectAttempts, healthCheckInterval, its timers
    memeFilter,     \* MEME_COIN_ADDRESSES and the last call made on it
    tracker         \* EnhancedWalletTracker: stats, notificationService

\* the variables of the components other than the single-call executor
tracking == <<connection, memeFilter, tracker>>
others == <<senders, chain, clock, notifier, alerts, tracking>>

vars == <<privateKey, isEnabled, config, stats, calls, pc, req, rpc,
          balRead, required, allowRead, simulated, tx, gasPrice, receipt, result,
          senders, chain, clock, notifier, alerts,
          connection, memeFilter, tracker>>

-----------------------------------------------------------------------------
(* Bounds of the model *)

\* executeSwap calls in one behaviour
MaxCalls == 3

\* ethers.parseUnits(amountIn, 18): the 18 decimals of the validator and of
\* the transaction builder, scaled to 5 so that amounts stay small integers
UnitDecimals == 5

\* the significand of a JS number (53 bits in IEEE-754 binary64), scaled with
\* UnitDecimals: as 17 significant digits fit the 18 decimals, the 4
\* significant digits of an 8-bit significand fit the 5 decimals
MantissaBits == 8

RECURSIVE Pow2(_)
Pow2(n) == IF n = 0 THEN 1 ELSE 2 * Pow2(n - 1)

RECURSIVE Pow10(_)
Pow10(n) == IF n = 0 THEN 1 ELSE 10 * Pow10(n - 1)

-----------------------------------------------------------------------------
(* Inputs *)

\* tokenIn / tokenOut: the native sentinel 'ETH', TOKEN_ADDRESSES.WETH, another
\* well-formed address, a string that is no address, and a missing field
Tokens == {"ETH", "WETH", "SHIB", "bad", "none"}

\* amountIn literals; "none" is a missing field
Amounts == {"none", "abc", "0", "0.5", "1"}

\* amountIn literals handed to validateSwapParameters alone: a negative amount
\* and an amount of seven fractional digits besides
ValidatorAmounts == Amounts \cup {"-1", "0.0000001"}

\* amountIn literals handed to calculateSwapDetails alone: positive decimals
QuoteAmounts ==
    {"0.1", "0.3", "0.5", "0.7", "1", "1.1", "1.3", "1.5", "1.7", "1.9"}

\* slippagePercent handed to calculateSwapDetails alone, in basis points:
\* missing (-1), and values from 0 to 100 percent
QuoteSlippages == {-1, 0, 10, 100, 300, 500, 1000, 5000, 9900, 10000}

\* slippagePercent in basis points: missing (-1, which stands for no value),
\* -5 percent, 150 percent
Slippages == {-1, -500, 15000}

\* dryRun: missing, true, false
DryRuns == {"none", "true", "false"}

\* swapParams is null or undefined
NullReq == [null |-> TRUE]

RequestObjects ==
    [null : {FALSE}, tokenIn : Tokens, tokenOut : Tokens, amountIn : Amounts,
     slippagePercent : Slippages, dryRun : DryRuns]

\* the params handed to validateSwapParameters alone; it reads tokenIn,
\* tokenOut and amountIn only
ValidatorInputs ==
    {NullReq} \cup
    [null : {FALSE}, tokenIn : Tokens, tokenOut : Tokens,
     amountIn : ValidatorAmounts, slippagePercent : {-1}, dryRun : {"none"}]

\* what the chain answers: balances and allowances around the amounts asked
\* for, and the decimals() of the token
Balances == {0, 6 * Pow10(UnitDecimals - 1), Pow10(UnitDecimals)}
TokenDecimals == {0, UnitDecimals}

-----------------------------------------------------------------------------
(* ethers helpers *)

IsAddress(t) == t \in {"WETH", "SHIB"}

\* the decimal literal a as mantissa and number of fractional digits
Mantissa(a) ==
    CASE a = "0" -> 0
      [] a = "0.5" -> 5
      [] a = "1" -> 1
      [] a = "-1" -> -1
      [] a = "0.0000001" -> 1
      [] a = "0.1" -> 1
      [] a = "0.3" -> 3
      [] a = "0.7" -> 7
      [] a = "1.1" -> 11
      [] a = "1.3" -> 13
      [] a = "1.5" -> 15
      [] a = "1.7" -> 17
      [] a = "1.9" -> 19
      [] OTHER -> 0

Places(a) ==
    CASE a \in {"0.1", "0.3", "0.5", "0.7", "1.1", "1.3", "1.5", "1.7", "1.9"} -> 1
      [] a = "0.0000001" -> 7
      [] OTHER -> 0

IsDecimal(a) ==
    a \in {"0", "0.5", "1", "-1", "0.0000001",
           "0.1", "0.3", "0.7", "1.1", "1.3", "1.5", "1.7", "1.9"}

\* ethers.parseUnits(a, d) throws on a non-decimal string and on more
\* fractional digits than d
ParseUnitsThrows(a, d) == ~IsDecimal(a) \/ Places(a) > d

ParseUnits(a, d) == Mantissa(a) * Pow10(d - Places(a))

-----------------------------------------------------------------------------
(* JS numbers: a number is the rational <<n, d>> in lowest binary terms, and *)
(* every arithmetic result is rounded to MantissaBits significant bits, ties *)
(* to even                                                                   *)

Abs(x) == IF x < 0 THEN -x ELSE x

\* n / d rounded to the nearest integer, ties to even (n >= 0, d > 0)
RoundHalfEven(n, d) ==
    LET q == n \div d
        r == n % d
    IN  IF 2 * r < d THEN q
        ELSE IF 2 * r > d THEN q + 1
        ELSE IF q % 2 = 0 THEN q ELSE q + 1

RECURSIVE Reduce(_, _)
Reduce(n, d) ==
    IF n = 0 THEN <<0, 1>>
    ELSE IF n % 2 = 0 /\ d % 2 = 0 THEN Reduce(n \div 2, d \div 2)
    ELSE <<n, d>>

\* n / d (n > 0) rounded to MantissaBits significant bits: scaled by powers
\* of two into [2^(MantissaBits-1), 2^MantissaBits), rounded there, scaled back
RECURSIVE RoundAbs(_, _)
RoundAbs(n, d) ==
    IF n < Pow2(MantissaBits - 1) * d
    THEN LET r == IF d % 2 = 0 THEN RoundAbs(n, d \div 2) ELSE RoundAbs(2 * n, d)
         IN  <<r[1], 2 * r[2]>>
    ELSE IF n >= Pow2(MantissaBits) * d
    THEN LET r == RoundAbs(n, 2 * d)
         IN  <<2 * r[1], r[2]>>
    ELSE <<RoundHalfEven(n, d), 1>>

\* the JS number nearest to n / d
RoundFloat(n, d) ==
    IF n = 0 THEN <<0, 1>>
    ELSE LET r == RoundAbs(Abs(n), d)
         IN  Reduce(IF n < 0 THEN -r[1] ELSE r[1], r[2])

\* parseFloat of a decimal literal
ParseFloat(a) == RoundFloat(Mantissa(a), Pow10(Places(a)))

\* the number literal of bps / 100 percent
PercentNumber(bps) == RoundFloat(bps, 100)

\* x / 100, 1 - x, x * y
FloatDiv100(x) == RoundFloat(x[1], 100 * x[2])
FloatOneMinus(x) == RoundFloat(x[2] - x[1], x[2])
FloatMul(x, y) == RoundFloat(x[1] * y[1], x[2] * y[2])

\* Number.prototype.toString gives the shortest decimal that reads back as
\* the same number, and the nearest such; DecimalAt is that decimal of the
\* number v >= 0 with j fractional digits, as an integer of 10^-j, -1 if there
\* is none
DecimalAt(v, j) ==
    LET lo == (v[1] * Pow10(j)) \div v[2]
        rem == (v[1] * Pow10(j)) % v[2]
        loBack == RoundFloat(lo, Pow10(j)) = v
        hiBack == RoundFloat(lo + 1, Pow10(j)) = v
    IN  IF loBack /\ (2 * rem <= v[2] \/ ~hiBack) THEN lo
        ELSE IF hiBack THEN lo + 1
        ELSE -1

\* ethers.parseUnits(v.toString(), d) for a number v >= 0: the value, or a
\* throw when the string has more than d fractional digits
RECURSIVE ParseUnitsOfString(_, _, _)
ParseUnitsOfString(v, d, j) ==
    IF j > d THEN [throws |-> TRUE, value |-> 0]
    ELSE IF DecimalAt(v, j) >= 0
    THEN [throws |-> FALSE, value |-> DecimalAt(v, j) * Pow10(d - j)]
    ELSE ParseUnitsOfString(v, d, j + 1)

\* ethers.parseUnits(v.toString(), d) for any number v
ParseUnitsOfNumber(v, d) ==
    IF v[1] >= 0 THEN ParseUnitsOfString(v, d, 0)
    ELSE LET q == ParseUnitsOfString(<<-v[1], v[2]>>, d, 0)
         IN  [throws |-> q.throws, value |-> -q.value]

-----------------------------------------------------------------------------
(* Configuration *)

\* config.maxSlippagePercent, default '0.5' percent, in basis points
MaxSlippageBps == 50

\* config.maxTransactionValueETH, default '0.1' ETH, in the smallest unit
MaxTransactionValueETH == Pow10(UnitDecimals - 1)

\* config.maxGasPriceGwei, default '100'
MaxGasPriceGwei == 100

\* gas prices getFeeData answers, in gwei: below and above the limit
GasPrices == {MaxGasPriceGwei - 50, MaxGasPriceGwei + 50}

-----------------------------------------------------------------------------
(* validateSwapParameters: the error it throws, "ok" when it returns *)

\* mutant of ValidateSwapParameters: without the same-token rule
ValidateSwapParameters_NoSameTokenRule(params) ==
    IF params.null THEN "TypeError"
    ELSE IF params.tokenIn = "none" \/ params.tokenOut = "none"
            \/ params.amountIn = "none" THEN "MissingParameters"
    ELSE IF params.tokenIn # "ETH" /\ ~IsAddress(params.tokenIn) THEN "InvalidTokenIn"
    ELSE IF params.tokenOut # "ETH" /\ ~IsAddress(params.tokenOut) THEN "InvalidTokenOut"
    ELSE IF ParseUnitsThrows(params.amountIn, UnitDecimals) THEN "InvalidAmountFormat"
    ELSE IF ParseUnits(params.amountIn, UnitDecimals) <= 0 THEN "InvalidAmountFormat"
    ELSE "ok"

\* mutant of ValidateSwapParameters: without the amount <= 0 rule
ValidateSwapParameters_NoPositiveRule(params) ==
    IF params.null THEN "TypeError"
    ELSE IF params.tokenIn = "none" \/ params.tokenOut = "none"
            \/ params.amountIn = "none" THEN "MissingParameters"
    ELSE IF params.tokenIn # "ETH" /\ ~IsAddress(params.tokenIn) THEN "InvalidTokenIn"
    ELSE IF params.tokenOut # "ETH" /\ ~IsAddress(params.tokenOut) THEN "InvalidTokenOut"
    ELSE IF params.tokenIn = params.tokenOut THEN "SameToken"
    ELSE IF ParseUnitsThrows(params.amountIn, UnitDecimals) THEN "InvalidAmountFormat"
    ELSE "ok"

ValidateSwapParameters(params) ==
    IF params.null THEN "TypeError"
    ELSE IF params.tokenIn = "none" \/ params.tokenOut = "none"
            \/ params.amountIn = "none" THEN "MissingParameters"
    ELSE IF params.tokenIn # "ETH" /\ ~IsAddress(params.tokenIn) THEN "InvalidTokenIn"
    ELSE IF params.tokenOut # "ETH" /\ ~IsAddress(params.tokenOut) THEN "InvalidTokenOut"
    ELSE IF params.tokenIn = params.tokenOut THEN "SameToken"
    ELSE IF ParseUnitsThrows(params.amountIn, UnitDecimals) THEN "InvalidAmountFormat"
    ELSE IF ParseUnits(params.amountIn, UnitDecimals) <= 0 THEN "InvalidAmountFormat"
    ELSE "ok"

\* the requests submitted to executeSwap; slippagePercent is read only after
\* validation, so a request that fails validation is taken without it
Requests ==
    {NullReq} \cup
    {r \in RequestObjects :
        ValidateSwapParameters(r) = "ok" \/ r.slippagePercent = -1}

\* the checks of executeSwap that precede validation: the error thrown, or "ok"
GateError ==
    IF ~isEnabled THEN "NotEnabled"
    ELSE IF config.emergencyStop THEN "EmergencyStop"
    ELSE "ok"

\* const { ..., slippagePercent = this.config.maxSlippagePercent, dryRun = true } = swapParams
SlippageOf(params) ==
    IF params.slippagePercent = -1 THEN MaxSlippageBps ELSE params.slippagePercent

\* mutant of DryRunOf: the flag read inverted
DryRunOf_Inverted(params) == params.dryRun = "false"

\* mutant of DryRunOf: a missing flag read as false
DryRunOf_MissingIsFalse(params) == params.dryRun = "true"

DryRunOf(params) == params.dryRun # "false"

\* calculateSwapDetails: estimatedOutput is amountIn (1:1), and
\* minOutputAfterSlippage is the number
\* parseFloat(estimatedOutput) * (1 - slippagePercent / 100)
MinOutputAfterSlippage(params) ==
    FloatMul(ParseFloat(params.amountIn),
             FloatOneMinus(FloatDiv100(PercentNumber(SlippageOf(params)))))

\* buildSwapTransaction:
\* amountOutMinimum = ethers.parseUnits(swapDetails.minOutputAfterSlippage, 18)
AmountOutMinimum(params) ==
    ParseUnitsOfNumber(MinOutputAfterSlippage(params), UnitDecimals)

\* the comparisons of verifyBalanceAndAllowance: ethBalance < requiredAmount,
\* tokenBalance < requiredAmount, currentAllowance < requiredAmount
\* mutant of Insufficient: the comparison turned round
Insufficient_Reversed(have, need) == need < have

Insufficient(have, need) == have < need

\* buildSwapTransaction: parseUnits rejects a string of too many fractional
\* digits, and encodeFunctionData rejects a negative uint256
BuildThrows(params) ==
    AmountOutMinimum(params).throws \/ AmountOutMinimum(params).value < 0

\* calculateSwapDetails: tokenIn === 'ETH' ? TOKEN_ADDRESSES.WETH : tokenIn
TokenAddress(t) == IF t = "ETH" THEN "WETH" ELSE t

\* no transaction built yet
NoTx == [built |-> FALSE]

\* buildSwapTransaction: the exactInputSingle parameters and the value, which
\* is amountIn when swapDetails.tokenInAddress === TOKEN_ADDRESSES.WETH
BuildSwapTransaction(params) ==
    [built |-> TRUE,
     tokenIn |-> TokenAddress(params.tokenIn),
     tokenOut |-> TokenAddress(params.tokenOut),
     amountIn |-> ParseUnits(params.amountIn, UnitDecimals),
     amountOutMinimum |-> AmountOutMinimum(params).value,
     value |-> IF TokenAddress(params.tokenIn) = "WETH"
               THEN ParseUnits(params.amountIn, UnitDecimals)
               ELSE 0]

-----------------------------------------------------------------------------
(* Results *)

NoResult == [kind |-> "none", success |-> FALSE, dryRun |-> FALSE, error |-> "none"]

Returned(ok, dry, err) ==
    [kind |-> "returned", success |-> ok, dryRun |-> dry, error |-> err]

\* the catch block of executeSwap: it reads swapParams.dryRun, which throws a
\* TypeError out of executeSwap when swapParams is null or undefined
CatchResult(params, err) ==
    IF params.null
    THEN [kind |-> "thrown", success |-> FALSE, dryRun |-> FALSE, error |-> "TypeError"]
    ELSE Returned(FALSE, TRUE, err)

\* catch (error): totalSwapsFailed++ on the statistics st, then the result
Catch(params, err, st) ==
    /\ stats' = [st EXCEPT !.totalSwapsFailed = @ + 1]
    /\ result' = CatchResult(params, err)
    /\ pc' = "done"

\* the call issues the network call named call and suspends on it
Issue(call) ==
    /\ pc' = call
    /\ rpc' = rpc \cup {call}
    /\ UNCHANGED <<stats, result>>

-----------------------------------------------------------------------------
(* The other components, at rest *)

\* the callers of concurrent executeSwap calls
Callers == {"c1", "c2"}

NoSender == [pc |-> "idle", nonce |-> -1, sent |-> -1]

\* the callers of sendTransactionAlert
Alerters == {"a1", "a2"}

Platforms == {"telegram", "discord"}
NoAlert ==
    [pc |-> "free", platform |-> "none", data |-> "none", attempt |-> 0,
     wakeAt |-> 0, sends |-> 0, delivered |-> {}, telegram |-> "unsent",
     discord |-> "unsent", ret |-> "none"]

\* this.retryAttempts = 3, this.retryDelay = 1000 and this.rateLimitDelay =
\* 2000 of the NotificationService constructor; time is counted in units of
\* TimeUnitMs milliseconds
TimeUnitMs == 1000
\* Date.now() when the service is constructed, far from the epoch (time 0)
StartTime == 4
RetryAttempts == 3
RetryDelay == 1000 \div TimeUnitMs
RateLimitDelay == 2000 \div TimeUnitMs

\* an address string: which address it spells and in which letter case
\* ("lower": all hex digits in lower case, "mixed": checksummed); "null" is
\* a value that is no non-empty string, "short" a string that is no
\* 0x-prefixed string of 42 characters
Address(id, case) == [id |-> id, case |-> case]
NullAddress == Address("null", "lower")
ShortAddress == Address("short", "lower")

\* MEME_COIN_ADDRESSES as the module defines it (SHIB ... UNI)
InitialMemeCoinAddresses ==
    <<Address("shib", "mixed"), Address("ape", "mixed"), Address("uni", "lower")>>

\* a decodedTx handed to isMemeTokenTransaction: what kind of value it is
\* ("null", "undefined", "string", "object") and, for an object, its name
\* ("none": no such member, "notAString": a number), its args ("present"
\* FALSE: no such member; each item a string, an array of strings or an
\* object holding strings) and its to (NullAddress: no such member)
NoArgs == [present |-> FALSE, items |-> <<>>]
NullTx == [kind |-> "null", name |-> "none", args |-> NoArgs, to |-> NullAddress]

\* the connected tracker that init() leaves behind: one provider with its
\* listeners, one health-check interval
Connected ==
    [isConnected |-> TRUE, reconnectAttempts |-> 0, healthCheckInterval |-> TRUE,
     intervals |-> 1, timers |-> 0, connecting |-> 0, probing |-> 0,
     exited |-> FALSE, events |-> 0, failedInRow |-> 0, lastDelay |-> 0]

\* a pending transaction as processTransaction sees it: whether tx.from is a
\* tracked wallet, tx.to (the id "wallet" is a tracked wallet, NullAddress a
\* contract creation) and the function its data selects ("none": no data)
NoTransaction == [fromTracked |-> FALSE, to |-> NullAddress, name |-> "none"]

NoStats ==
    [totalTransactionsProcessed |-> 0, trackedWalletHits |-> 0,
     memeTokenHits |-> 0, notificationsSent |-> 0]

TrackingIdle ==
    /\ connection = Connected
    /\ memeFilter = [addresses |-> InitialMemeCoinAddresses, op |-> "none",
                     arg |-> NullAddress, tx |-> NullTx, ret |-> "none"]
    /\ tracker = [stats |-> NoStats, notificationService |-> TRUE,
                  processing |-> [a \in Alerters |-> NoTransaction]]

OthersIdle ==
    /\ TrackingIdle
    /\ senders = [c \in Callers |-> NoSender]
    /\ chain = [nextNonce |-> 0]
    /\ clock = StartTime
    /\ notifier = [lastNotificationTime |-> 0, rateLimitDelay |-> RateLimitDelay,
                   retryAttempts |-> RetryAttempts,
                   isEnabled |-> [telegram |-> FALSE, discord |-> FALSE]]
    /\ alerts = [a \in Alerters |-> NoAlert]

-----------------------------------------------------------------------------
(* The executor *)

Init ==
    /\ privateKey \in {"missing", "malformed", "valid"}
    /\ isEnabled = FALSE
    /\ config \in [emergencyStop : {FALSE}, enableRealTrading : BOOLEAN]
    /\ stats = [totalSwapsRequested |-> 0, totalSwapsExecuted |-> 0,
                totalSwapsFailed |-> 0, totalVolumeETH |-> 0,
                totalGasSpentETH |-> 0, lastSwapTime |-> "null"]
    /\ calls = 0
    /\ pc = "idle"
    /\ req = NullReq
    /\ rpc = {}
    /\ balRead = -1
    /\ required = -1
    /\ allowRead = -1
    /\ simulated = "none"
    /\ tx = NoTx
    /\ gasPrice = -1
    /\ receipt = "none"
    /\ result = NoResult
    /\ OthersIdle

\* initializeProvider: new ethers.Wallet throws on a key that is no key, and
\* provider.getBalance may fail; isEnabled is true only when neither happens
InitializeProvider ==
    /\ \E answered \in BOOLEAN :
          isEnabled' = (privateKey = "valid" /\ answered)
    /\ UNCHANGED <<others, privateKey, config, stats, calls, pc, req, rpc,
                   balRead, required, allowRead, simulated, tx, gasPrice,
                   receipt, result>>

EmergencyStop ==
    /\ config' = [config EXCEPT !.emergencyStop = TRUE]
    /\ UNCHANGED <<others, privateKey, isEnabled, stats, calls, pc, req, rpc,
                   balRead, required, allowRead, simulated, tx, gasPrice,
                   receipt, result>>

ResumeTrading ==
    /\ config' = [config EXCEPT !.emergencyStop = FALSE]
    /\ UNCHANGED <<others, privateKey, isEnabled, stats, calls, pc, req, rpc,
                   balRead, required, allowRead, simulated, tx, gasPrice,
                   receipt, result>>

\* mutant of ExecuteSwap: without totalSwapsRequested++
ExecuteSwap_NotCounted(params) ==
    /\ pc = "idle"
    /\ calls < MaxCalls
    /\ calls' = calls + 1
    /\ req' = params
    /\ balRead' = -1
    /\ required' = -1
    /\ allowRead' = -1
    /\ simulated' = "none"
    /\ tx' = NoTx
    /\ gasPrice' = -1
    /\ receipt' = "none"
    /\ IF GateError # "ok"
       THEN Catch(params, GateError, stats) /\ rpc' = {}
       ELSE IF ValidateSwapParameters(params) # "ok"
       THEN Catch(params, ValidateSwapParameters(params), stats) /\ rpc' = {}
       ELSE /\ stats' = stats
            /\ pc' = IF params.tokenIn = "ETH" THEN "getBalance" ELSE "balanceOf"
            /\ rpc' = {IF params.tokenIn = "ETH" THEN "getBalance" ELSE "balanceOf"}
            /\ result' = NoResult
    /\ UNCHANGED <<others, privateKey, isEnabled, config>>

\* executeSwap from its entry to the first network call of
\* verifyBalanceAndAllowance
ExecuteSwap(params) ==
    /\ pc = "idle"
    /\ calls < MaxCalls
    /\ calls' = calls + 1
    /\ req' = params
    /\ balRead' = -1
    /\ required' = -1
    /\ allowRead' = -1
    /\ simulated' = "none"
    /\ tx' = NoTx
    /\ gasPrice' = -1
    /\ receipt' = "none"
    /\ IF GateError # "ok"
       THEN Catch(params, GateError, stats) /\ rpc' = {}
       ELSE IF ValidateSwapParameters(params) # "ok"
       THEN Catch(params, ValidateSwapParameters(params), stats) /\ rpc' = {}
       ELSE /\ stats' = [stats EXCEPT !.totalSwapsRequested = @ + 1]
            /\ pc' = IF params.tokenIn = "ETH" THEN "getBalance" ELSE "balanceOf"
            /\ rpc' = {IF params.tokenIn = "ETH" THEN "getBalance" ELSE "balanceOf"}
            /\ result' = NoResult
    /\ UNCHANGED <<others, privateKey, isEnabled, config>>

\* stages 4 and 5 (calculateSwapDetails, buildSwapTransaction), then the
\* estimateGas call of stage 6
BuildAndSimulate ==
    IF BuildThrows(req)
    THEN Catch(req, "EncodeError", stats) /\ rpc' = rpc /\ tx' = tx
    ELSE tx' = BuildSwapTransaction(req) /\ Issue("estimateGas")

\* provider.getBalance answered (ETH input)
GetBalanceReturns ==
    /\ pc = "getBalance"
    /\ \E failed \in BOOLEAN, bal \in Balances :
          IF failed
          THEN /\ Catch(req, "RpcError", stats)
               /\ UNCHANGED <<rpc, balRead, required, tx>>
          ELSE /\ balRead' = bal
               /\ required' = ParseUnits(req.amountIn, UnitDecimals)
               /\ IF Insufficient(bal, ParseUnits(req.amountIn, UnitDecimals))
                  THEN Catch(req, "InsufficientETHBalance", stats)
                       /\ UNCHANGED <<rpc, tx>>
                  ELSE BuildAndSimulate
    /\ UNCHANGED <<others, privateKey, isEnabled, config, calls, req, allowRead,
                   simulated, gasPrice, receipt>>

\* tokenContract.balanceOf answered (token input)
BalanceOfReturns ==
    /\ pc = "balanceOf"
    /\ \E failed \in BOOLEAN, bal \in Balances :
          IF failed
          THEN /\ Catch(req, "RpcError", stats)
               /\ UNCHANGED <<rpc, balRead>>
          ELSE /\ balRead' = bal
               /\ Issue("decimals")
    /\ UNCHANGED <<others, privateKey, isEnabled, config, calls, req, required,
                   allowRead, simulated, tx, gasPrice, receipt>>

\* tokenContract.decimals answered
DecimalsReturns ==
    /\ pc = "decimals"
    /\ \E failed \in BOOLEAN, d \in TokenDecimals :
          IF failed
          THEN /\ Catch(req, "RpcError", stats)
               /\ UNCHANGED <<rpc, required>>
          ELSE IF ParseUnitsThrows(req.amountIn, d)
          THEN /\ Catch(req, "NumericFault", stats)
               /\ UNCHANGED <<rpc, required>>
          ELSE /\ required' = ParseUnits(req.amountIn, d)
               /\ IF Insufficient(balRead, ParseUnits(req.amountIn, d))
                  THEN Catch(req, "InsufficientTokenBalance", stats) /\ rpc' = rpc
                  ELSE Issue("allowance")
    /\ UNCHANGED <<others, privateKey, isEnabled, config, calls, req, balRead,
                   allowRead, simulated, tx, gasPrice, receipt>>

\* tokenContract.allowance answered
AllowanceReturns ==
    /\ pc = "allowance"
    /\ \E failed \in BOOLEAN, al \in Balances :
          IF failed
          THEN /\ Catch(req, "RpcError", stats)
               /\ UNCHANGED <<rpc, allowRead, tx>>
          ELSE /\ allowRead' = al
               /\ IF Insufficient(al, required)
                  THEN Catch(req, "InsufficientAllowance", stats)
                       /\ UNCHANGED <<rpc, tx>>
                  ELSE BuildAndSimulate
    /\ UNCHANGED <<others, privateKey, isEnabled, config, calls, req, balRead, required,
                   simulated, gasPrice, receipt>>

\* mutant of SimulationFailed: the simulation error is logged and swallowed
SimulationFailed_Swallowed == Issue("getFeeData")

\* catch (simulationError): throw new Error(`Swap would fail: ...`), which the
\* outer catch turns into the result
SimulationFailed ==
    /\ Catch(req, "SwapWouldFail", stats)
    /\ rpc' = rpc

\* wallet.estimateGas answered
EstimateGasReturns ==
    /\ pc = "estimateGas"
    /\ \E failed \in BOOLEAN :
          IF failed
          THEN simulated' = "reverted" /\ SimulationFailed
          ELSE simulated' = simulated /\ Issue("getFeeData")
    /\ UNCHANGED <<others, privateKey, isEnabled, config, calls, req,
                   balRead, required, allowRead, tx, gasPrice, receipt>>

\* mutant of ExecutionDecision: the enableRealTrading check is missing
ExecutionDecision_NoTradingGate ==
    IF DryRunOf(req)
    THEN Catch(req, "ReferenceError", stats) /\ rpc' = rpc
    ELSE Issue("sendTransaction")

\* stages 7 and 8 up to the broadcast: the dry-run return reads
\* simulationResult and estimatedCostETH, which are declared in the inner try
\* block and are not in scope, so it throws a ReferenceError
ExecutionDecision ==
    IF DryRunOf(req)
    THEN Catch(req, "ReferenceError", stats) /\ rpc' = rpc
    ELSE IF ~config.enableRealTrading
    THEN Catch(req, "RealTradingDisabled", stats) /\ rpc' = rpc
    ELSE Issue("sendTransaction")

\* provider.getFeeData answered; a failure, or an answer without gasPrice,
\* throws inside the inner try
GetFeeDataReturns ==
    /\ pc = "getFeeData"
    /\ \E failed \in BOOLEAN, price \in GasPrices :
          IF failed
          THEN simulated' = "noFeeData" /\ gasPrice' = gasPrice /\ SimulationFailed
          ELSE simulated' = "ok" /\ gasPrice' = price /\ ExecutionDecision
    /\ UNCHANGED <<others, privateKey, isEnabled, config, calls, req,
                   balRead, required, allowRead, tx, receipt>>

\* wallet.sendTransaction answered
SendTransactionReturns ==
    /\ pc = "sendTransaction"
    /\ \E failed \in BOOLEAN :
          IF failed
          THEN Catch(req, "RpcError", stats) /\ rpc' = rpc
          ELSE Issue("wait")
    /\ UNCHANGED <<others, privateKey, isEnabled, config, calls, req,
                   balRead, required, allowRead, simulated, tx, gasPrice,
                   receipt>>

\* txResponse.wait answered: a revert throws; on a receipt the statistics are
\* updated, and receipt.gasUsed * receipt.effectiveGasPrice throws a TypeError
\* when the receipt has no effectiveGasPrice
WaitReturns ==
    /\ pc = "wait"
    /\ \E outcome \in {"reverted", "receipt", "noEffectiveGasPrice"} :
          /\ receipt' = outcome
          /\ CASE outcome = "reverted" -> Catch(req, "RpcError", stats)
               [] outcome = "noEffectiveGasPrice" ->
                    Catch(req, "TypeError",
                          [stats EXCEPT !.totalSwapsExecuted = @ + 1])
               [] outcome = "receipt" ->
                    /\ stats' = [stats EXCEPT !.totalSwapsExecuted = @ + 1,
                                              !.totalGasSpentETH = @ + 1,
                                              !.lastSwapTime = "set"]
                    /\ result' = Returned(TRUE, FALSE, "none")
                    /\ pc' = "done"
    /\ UNCHANGED <<others, privateKey, isEnabled, config, calls, req, rpc,
                   balRead, required, allowRead, simulated, tx, gasPrice>>

\* mutant of CallerResumes: the return clears the emergency stop
CallerResumes_ResumesTrading ==
    /\ pc = "done"
    /\ pc' = "idle"
    /\ req' = NullReq
    /\ rpc' = {}
    /\ balRead' = -1
    /\ required' = -1
    /\ allowRead' = -1
    /\ simulated' = "none"
    /\ tx' = NoTx
    /\ gasPrice' = -1
    /\ receipt' = "none"
    /\ result' = NoResult
    /\ config' = [config EXCEPT !.emergencyStop = FALSE]
    /\ UNCHANGED <<others, privateKey, isEnabled, stats, calls>>

\* the caller's await of executeSwap resumes with the result, and the call's
\* frame is gone
CallerResumes ==
    /\ pc = "done"
    /\ pc' = "idle"
    /\ req' = NullReq
    /\ rpc' = {}
    /\ balRead' = -1
    /\ required' = -1
    /\ allowRead' = -1
    /\ simulated' = "none"
    /\ tx' = NoTx
    /\ gasPrice' = -1
    /\ receipt' = "none"
    /\ result' = NoResult
    /\ UNCHANGED <<others, privateKey, isEnabled, config, stats, calls>>

Next ==
    \/ InitializeProvider
    \/ EmergencyStop
    \/ ResumeTrading
    \/ \E params \in Requests : ExecuteSwap(params)
    \/ GetBalanceReturns
    \/ BalanceOfReturns
    \/ DecimalsReturns
    \/ AllowanceReturns
    \/ EstimateGasReturns
    \/ GetFeeDataReturns
    \/ SendTransactionReturns
    \/ WaitReturns
    \/ CallerResumes

Spec == Init /\ [][Next]_vars

-----------------------------------------------------------------------------
(* validateSwapParameters called on its own, as the tests and the           *)
(* integration demo call it                                                 *)

InitValidate ==
    /\ req \in ValidatorInputs
    /\ pc = "validate"
    /\ result = NoResult
    /\ privateKey = "missing"
    /\ isEnabled = FALSE
    /\ config = [emergencyStop |-> FALSE, enableRealTrading |-> FALSE]
    /\ stats = [totalSwapsRequested |-> 0, totalSwapsExecuted |-> 0,
                totalSwapsFailed |-> 0, totalVolumeETH |-> 0,
                totalGasSpentETH |-> 0, lastSwapTime |-> "null"]
    /\ calls = 0
    /\ rpc = {}
    /\ balRead = -1
    /\ required = -1
    /\ allowRead = -1
    /\ simulated = "none"
    /\ tx = NoTx
    /\ gasPrice = -1
    /\ receipt = "none"
    /\ OthersIdle

\* validateSwapParameters(req) throws its error or returns
Validate ==
    /\ pc = "validate"
    /\ pc' = "validated"
    /\ result' = IF ValidateSwapParameters(req) = "ok"
                 THEN [kind |-> "returned", success |-> TRUE, dryRun |-> FALSE,
                       error |-> "none"]
                 ELSE [kind |-> "thrown", success |-> FALSE, dryRun |-> FALSE,
                       error |-> ValidateSwapParameters(req)]
    /\ UNCHANGED <<others, privateKey, isEnabled, config, stats, calls, req, rpc,
                   balRead, required, allowRead, simulated, tx, gasPrice,
                   receipt>>

NextValidate == Validate

SpecValidate == InitValidate /\ [][NextValidate]_vars

-----------------------------------------------------------------------------
(* calculateSwapDetails and buildSwapTransaction called on their own, on    *)
(* a valid request                                                          *)

QuoteRequests ==
    [null : {FALSE}, tokenIn : {"ETH"}, tokenOut : {"SHIB"},
     amountIn : QuoteAmounts, slippagePercent : QuoteSlippages,
     dryRun : {"none"}]

InitQuote ==
    /\ req \in QuoteRequests
    /\ pc = "quote"
    /\ result = NoResult
    /\ tx = NoTx
    /\ privateKey = "valid"
    /\ isEnabled = TRUE
    /\ config = [emergencyStop |-> FALSE, enableRealTrading |-> FALSE]
    /\ stats = [totalSwapsRequested |-> 0, totalSwapsExecuted |-> 0,
                totalSwapsFailed |-> 0, totalVolumeETH |-> 0,
                totalGasSpentETH |-> 0, lastSwapTime |-> "null"]
    /\ calls = 0
    /\ rpc = {}
    /\ balRead = -1
    /\ required = -1
    /\ allowRead = -1
    /\ simulated = "none"
    /\ gasPrice = -1
    /\ receipt = "none"
    /\ OthersIdle

\* buildSwapTransaction(await calculateSwapDetails(...)) returns the
\* transaction or throws
Quote ==
    /\ pc = "quote"
    /\ pc' = "quoted"
    /\ IF BuildThrows(req)
       THEN /\ tx' = tx
            /\ result' = [kind |-> "thrown", success |-> FALSE,
                          dryRun |-> FALSE, error |-> "EncodeError"]
       ELSE /\ tx' = BuildSwapTransaction(req)
            /\ result' = [kind |-> "returned", success |-> TRUE,
                          dryRun |-> FALSE, error |-> "none"]
    /\ UNCHANGED <<others, privateKey, isEnabled, config, stats, calls, req, rpc,
                   balRead, required, allowRead, simulated, gasPrice, receipt>>

NextQuote == Quote

SpecQuote == InitQuote /\ [][NextQuote]_vars

-----------------------------------------------------------------------------
(* Concurrent executeSwap calls at stage 8 (real execution).  executeSwap    *)
(* holds no lock and keeps no queue, so a caller that does not await one     *)
(* call before making the next has several calls in flight on the one        *)
(* wallet.  wallet.sendTransaction first asks the node for the signer's      *)
(* pending transaction count, which becomes the nonce, then signs and        *)
(* broadcasts; txResponse.wait() has no timeout argument.                    *)

\* the single-call variables, which the concurrent calls leave alone
frame == <<pc, req, rpc, balRead, required, allowRead, simulated, tx,
           gasPrice, receipt, result>>

\* an executor that initializeProvider has enabled, real trading switched on
ExecutorReady ==
    /\ privateKey = "valid"
    /\ isEnabled = TRUE
    /\ config = [emergencyStop |-> FALSE, enableRealTrading |-> TRUE]
    /\ stats = [totalSwapsRequested |-> 0, totalSwapsExecuted |-> 0,
                totalSwapsFailed |-> 0, totalVolumeETH |-> 0,
                totalGasSpentETH |-> 0, lastSwapTime |-> "null"]
    /\ calls = 0
    /\ pc = "idle"
    /\ req = NullReq
    /\ rpc = {}
    /\ balRead = -1
    /\ required = -1
    /\ allowRead = -1
    /\ simulated = "none"
    /\ tx = NoTx
    /\ gasPrice = -1
    /\ receipt = "none"
    /\ result = NoResult

InitSenders == ExecutorReady /\ OthersIdle

\* the catch block of a concurrent call c: totalSwapsFailed++ and the return
SenderFails(c) ==
    /\ stats' = [stats EXCEPT !.totalSwapsFailed = @ + 1]
    /\ senders' = [senders EXCEPT ![c].pc = "done"]

\* executeSwap of caller c, with a valid request and dryRun = false, from its
\* entry through stages 1 to 7 (their checks passing) to the call of
\* wallet.sendTransaction, which asks for the pending transaction count
ReachesSendTransaction(c) ==
    /\ senders[c].pc = "idle"
    /\ calls < MaxCalls
    /\ GateError = "ok"
    /\ config.enableRealTrading
    /\ calls' = calls + 1
    /\ stats' = [stats EXCEPT !.totalSwapsRequested = @ + 1]
    /\ senders' = [senders EXCEPT ![c] = [pc |-> "nonce", nonce |-> -1, sent |-> -1]]
    /\ UNCHANGED <<privateKey, isEnabled, config, frame, tracking, chain, clock,
                   notifier, alerts>>

\* the node answers the pending transaction count: the nonce of c's
\* transaction; the signed transaction is then handed to the node
NonceReturns(c) ==
    /\ senders[c].pc = "nonce"
    /\ \E failed \in BOOLEAN :
          IF failed
          THEN SenderFails(c)
          ELSE /\ senders' = [senders EXCEPT ![c].pc = "broadcast",
                                             ![c].nonce = chain.nextNonce]
               /\ stats' = stats
    /\ UNCHANGED <<privateKey, isEnabled, config, calls, frame, tracking, chain, clock,
                   notifier, alerts>>

\* the node answers the broadcast: it takes the transaction when its nonce is
\* the next one; a nonce already taken by a pending transaction is refused
\* or, at a higher gas price, replaces that transaction
BroadcastReturns(c) ==
    /\ senders[c].pc = "broadcast"
    /\ \E answer \in {"failed", "taken", "refused"} :
          CASE answer = "failed" ->
                  SenderFails(c) /\ chain' = chain
            [] answer = "taken" ->
                  /\ senders' = [senders EXCEPT ![c].pc = "wait",
                                                ![c].sent = senders[c].nonce]
                  /\ chain' = IF senders[c].nonce = chain.nextNonce
                              THEN [chain EXCEPT !.nextNonce = @ + 1]
                              ELSE chain
                  /\ stats' = stats
            [] answer = "refused" ->
                  /\ senders[c].nonce < chain.nextNonce
                  /\ stats' = [stats EXCEPT !.totalSwapsFailed = @ + 1]
                  /\ senders' = [senders EXCEPT ![c].pc = "done",
                                                ![c].sent = senders[c].nonce]
                  /\ chain' = chain
    /\ UNCHANGED <<privateKey, isEnabled, config, calls, frame, tracking, clock,
                   notifier, alerts>>

\* txResponse.wait() of c answers: the receipt (with or without
\* effectiveGasPrice), or the transaction reverted or was replaced
ReceiptArrives(c) ==
    /\ senders[c].pc = "wait"
    /\ \E outcome \in {"reverted", "receipt", "noEffectiveGasPrice"} :
          /\ senders' = [senders EXCEPT ![c].pc = "done"]
          /\ stats' =
                CASE outcome = "reverted" ->
                        [stats EXCEPT !.totalSwapsFailed = @ + 1]
                  [] outcome = "noEffectiveGasPrice" ->
                        [stats EXCEPT !.totalSwapsExecuted = @ + 1,
                                      !.totalSwapsFailed = @ + 1]
                  [] outcome = "receipt" ->
                        [stats EXCEPT !.totalSwapsExecuted = @ + 1,
                                      !.totalGasSpentETH = @ + 1,
                                      !.lastSwapTime = "set"]
    /\ UNCHANGED <<privateKey, isEnabled, config, calls, frame, tracking, chain, clock,
                   notifier, alerts>>

\* the caller of c takes the result
SenderResumes(c) ==
    /\ senders[c].pc = "done"
    /\ senders' = [senders EXCEPT ![c] = NoSender]
    /\ UNCHANGED <<privateKey, isEnabled, config, stats, calls, frame, tracking, tracking,
                   chain,
                   clock, notifier, alerts>>

NextSenders ==
    \E c \in Callers :
        \/ ReachesSendTransaction(c)
        \/ NonceReturns(c)
        \/ BroadcastReturns(c)
        \/ ReceiptArrives(c)
        \/ SenderResumes(c)

SpecSenders == InitSenders /\ [][NextSenders]_vars

\* every JSON-RPC request is answered or times out, and the event loop runs
\* the continuation; nothing makes a receipt arrive
FairSpecSenders ==
    /\ SpecSenders
    /\ \A c \in Callers :
          /\ WF_vars(NonceReturns(c))
          /\ WF_vars(BroadcastReturns(c))
          /\ WF_vars(SenderResumes(c))

-----------------------------------------------------------------------------
(* NotificationService: sendTransactionAlert, sendToTelegram, sendToDiscord, *)
(* updatePreferences.  Time is counted in units of TimeUnitMs milliseconds.  *)
(* Each alert in flight is one call of sendTransactionAlert; an action is    *)
(* the synchronous run of the code from one await to the next.               *)

MaxTicks == 4
Data == {"ok", "malformed"}
\* preferences.rateLimitDelay / preferences.retryAttempts: 0 is a falsy
\* field (absent, or the number 0); every other number is taken as it is
DelayPreferences == {0, -1, 3}
RetryPreferences == {0, -1, 1}

InitNotifier ==
    /\ ExecutorReady
    /\ senders = [c \in Callers |-> NoSender]
    /\ chain = [nextNonce |-> 0]
    /\ clock = StartTime
    /\ notifier \in
          [lastNotificationTime : {0}, rateLimitDelay : {RateLimitDelay},
           retryAttempts : {RetryAttempts},
           isEnabled : [telegram : BOOLEAN, discord : BOOLEAN]]
    /\ alerts = [a \in Alerters |-> NoAlert]
    /\ TrackingIdle

RateLimited_Never(now) == FALSE

\* now - this.lastNotificationTime < this.rateLimitDelay
RateLimited(now) ==
    now - notifier.lastNotificationTime < notifier.rateLimitDelay

\* return results (the locals of the call are gone)
ReturnResults(al) ==
    [al EXCEPT !.pc = "returned", !.ret = "results", !.platform = "none",
               !.attempt = 0, !.sends = 0]

\* the loop head of sendToTelegram / sendToDiscord with the loop variable at
\* attempt: the next send is started, or the loop ends and the function
\* returns undefined
LoopHead(al, p, attempt) ==
    IF attempt <= notifier.retryAttempts
    THEN [al EXCEPT !.pc = "send", !.platform = p, !.attempt = attempt]
    ELSE [al EXCEPT !.pc = "returns", !.platform = p, !.attempt = attempt]

\* sendToDiscord up to its first await, inside the try of the Discord block
SendToDiscord(al) ==
    IF al.data = "malformed"
    THEN [al EXCEPT !.pc = "throws", !.platform = "discord", !.sends = 0]
    ELSE LoopHead([al EXCEPT !.sends = 0], "discord", 1)

\* what sendTransactionAlert does with a call of sendToDiscord that has
\* ended: sent = true or the error recorded, then return results
DiscordBlockEnds(al) ==
    CASE al.pc = "returns" -> ReturnResults([al EXCEPT !.discord = "sent"])
      [] al.pc = "throws" -> ReturnResults([al EXCEPT !.discord = "error"])
      [] OTHER -> al

\* the Discord block of sendTransactionAlert
DiscordBlock(al) ==
    IF notifier.isEnabled.discord
    THEN DiscordBlockEnds(SendToDiscord(al))
    ELSE ReturnResults(al)

\* sendToTelegram up to its first await, inside the try of the Telegram block
SendToTelegram(al) ==
    IF al.data = "malformed"
    THEN [al EXCEPT !.pc = "throws", !.platform = "telegram", !.sends = 0]
    ELSE LoopHead([al EXCEPT !.sends = 0], "telegram", 1)

\* what sendTransactionAlert does with a call of sendToTelegram that has
\* ended: sent = true or the error recorded, then the Discord block
TelegramBlockEnds(al) ==
    CASE al.pc = "returns" -> DiscordBlock([al EXCEPT !.telegram = "sent"])
      [] al.pc = "throws" -> DiscordBlock([al EXCEPT !.telegram = "error"])
      [] OTHER -> al

\* the Telegram block of sendTransactionAlert
TelegramBlock(al) ==
    IF notifier.isEnabled.telegram
    THEN TelegramBlockEnds(SendToTelegram(al))
    ELSE DiscordBlock(al)

\* the block of sendTransactionAlert that a platform's sender returns into
BlockEnds(al) ==
    IF al.platform = "telegram" THEN TelegramBlockEnds(al) ELSE DiscordBlockEnds(al)

\* sendTransactionAlert(transactionData) from its entry to its first await
\* or its return
SendTransactionAlertCall(a, data) ==
    LET now == clock
        al == [NoAlert EXCEPT !.data = data]
    IN  IF RateLimited(now)
        THEN /\ alerts' = [alerts EXCEPT ![a] =
                             [al EXCEPT !.pc = "returned", !.ret = "rate_limited"]]
             /\ notifier' = notifier
        ELSE /\ notifier' = [notifier EXCEPT !.lastNotificationTime = now]
             /\ alerts' = [alerts EXCEPT ![a] = TelegramBlock(al)]

\* a caller calls sendTransactionAlert(transactionData)
SendTransactionAlert(a, data) ==
    /\ alerts[a].pc = "free"
    /\ SendTransactionAlertCall(a, data)
    /\ UNCHANGED <<privateKey, isEnabled, config, stats, calls, frame, tracking, senders,
                   chain, clock>>

\* the send of alert a (telegram.sendMessage or axios.post) is answered
SendReturns(a) ==
    /\ alerts[a].pc = "send"
    /\ \E ok \in BOOLEAN :
          LET p == alerts[a].platform
              al == [alerts[a] EXCEPT !.sends = @ + 1]
          IN  alerts' = [alerts EXCEPT ![a] =
                  IF ok THEN BlockEnds([al EXCEPT !.pc = "returns",
                                                  !.delivered = @ \cup {p}])
                  ELSE IF al.attempt = notifier.retryAttempts
                       THEN BlockEnds([al EXCEPT !.pc = "throws"])
                       ELSE [al EXCEPT !.pc = "sleep",
                                       !.wakeAt = clock + RetryDelay * al.attempt]]
    /\ UNCHANGED <<privateKey, isEnabled, config, stats, calls, frame, tracking, senders,
                   chain, clock, notifier>>

\* the timer of this.sleep(this.retryDelay * attempt) fires: attempt++
SleepEnds(a) ==
    /\ alerts[a].pc = "sleep"
    /\ clock >= alerts[a].wakeAt
    /\ alerts' = [alerts EXCEPT ![a] =
          BlockEnds(LoopHead([alerts[a] EXCEPT !.wakeAt = 0], alerts[a].platform,
                             alerts[a].attempt + 1))]
    /\ UNCHANGED <<privateKey, isEnabled, config, stats, calls, frame, tracking, senders,
                   chain, clock, notifier>>

\* the caller of sendTransactionAlert takes the result
AlertCollected(a) ==
    /\ alerts[a].pc = "returned"
    /\ alerts' = [alerts EXCEPT ![a] = NoAlert]
    /\ UNCHANGED <<privateKey, isEnabled, config, stats, calls, frame, tracking, senders,
                   chain, clock, notifier>>

UpdatePreferences(rateLimitDelay, retryAttempts) ==
    /\ notifier' =
          [notifier EXCEPT
             !.rateLimitDelay = IF rateLimitDelay = 0 THEN @ ELSE rateLimitDelay,
             !.retryAttempts = IF retryAttempts = 0 THEN @ ELSE retryAttempts]
    /\ notifier' # notifier
    /\ UNCHANGED <<privateKey, isEnabled, config, stats, calls, frame, tracking, senders,
                   chain, clock, alerts>>

\* Date.now() advances
Tick ==
    /\ clock < StartTime + MaxTicks
    /\ clock' = clock + 1
    /\ UNCHANGED <<privateKey, isEnabled, config, stats, calls, frame, tracking, senders,
                   chain, notifier, alerts>>

NextNotifier ==
    \/ \E a \in Alerters, data \in Data : SendTransactionAlert(a, data)
    \/ \E a \in Alerters : SendReturns(a)
    \/ \E a \in Alerters : SleepEnds(a)
    \/ \E a \in Alerters : AlertCollected(a)
    \/ \E d \in DelayPreferences, r \in RetryPreferences : UpdatePreferences(d, r)
    \/ Tick

SpecNotifier == InitNotifier /\ [][NextNotifier]_vars

-----------------------------------------------------------------------------
(* The wallet tracker's connection handling (WalletTracker and               *)
(* EnhancedWalletTracker have the same code): the 'error' listener, the      *)
(* connection error branch of the 'pending' listener, setupHealthCheck and   *)
(* handleReconnect.  connection.timers counts the pending setTimeout         *)
(* callbacks of handleReconnect, connection.connecting those that run and    *)
(* await connectToProvider, connection.intervals the setInterval timers of   *)
(* setupHealthCheck that were not cleared, connection.probing the health     *)
(* checks that await getBlockNumber.                                         *)

MaxEvents == 3
MaxReconnectAttempts == 5
ReconnectDelay == 5000 \div TimeUnitMs

InitReconnect ==
    /\ ExecutorReady
    /\ OthersIdle

\* handleReconnect()
HandleReconnect(c) ==
    LET cleared == IF c.healthCheckInterval
                   THEN [c EXCEPT !.healthCheckInterval = FALSE, !.intervals = @ - 1]
                   ELSE c
    IN  IF cleared.reconnectAttempts >= MaxReconnectAttempts
        THEN [cleared EXCEPT !.exited = TRUE]
        ELSE [cleared EXCEPT !.reconnectAttempts = @ + 1,
                             !.timers = @ + 1,
                             !.lastDelay = ReconnectDelay]

\* a connection error reaches the tracker: the provider emits 'error', or
\* getTransaction of a 'pending' handler in flight rejects with a network
\* error; several handlers can be in flight when the connection drops
ConnectionError ==
    /\ ~connection.exited
    /\ connection.events < MaxEvents
    /\ connection' = HandleReconnect([connection EXCEPT !.isConnected = FALSE,
                                                        !.events = @ + 1])
    /\ UNCHANGED <<privateKey, isEnabled, config, stats, calls, frame, senders,
                   chain, clock, notifier, alerts, memeFilter, tracker>>

\* a health-check interval fires while the tracker is marked connected
HealthCheckFires ==
    /\ ~connection.exited
    /\ connection.events < MaxEvents
    /\ connection.intervals > 0
    /\ connection.isConnected
    /\ connection' = [connection EXCEPT !.probing = @ + 1, !.events = @ + 1]
    /\ UNCHANGED <<privateKey, isEnabled, config, stats, calls, frame, senders,
                   chain, clock, notifier, alerts, memeFilter, tracker>>

\* getBlockNumber of a health check answers
HealthCheckReturns ==
    /\ ~connection.exited
    /\ connection.probing > 0
    /\ \E ok \in BOOLEAN :
          LET c == [connection EXCEPT !.probing = @ - 1]
          IN  connection' = IF ok THEN c
                            ELSE HandleReconnect([c EXCEPT !.isConnected = FALSE])
    /\ UNCHANGED <<privateKey, isEnabled, config, stats, calls, frame, senders,
                   chain, clock, notifier, alerts, memeFilter, tracker>>

\* a timer set by handleReconnect fires: connectToProvider is called
ReconnectTimerFires ==
    /\ ~connection.exited
    /\ connection.timers > 0
    /\ connection' = [connection EXCEPT !.timers = @ - 1, !.connecting = @ + 1]
    /\ UNCHANGED <<privateKey, isEnabled, config, stats, calls, frame, senders,
                   chain, clock, notifier, alerts, memeFilter, tracker>>

\* connectToProvider of a reconnection attempt answers: on success
\* startListening (with setupHealthCheck) runs and the counter is reset, on
\* failure handleReconnect is called again
ConnectReturns ==
    /\ ~connection.exited
    /\ connection.connecting > 0
    /\ \E ok \in BOOLEAN :
          LET c == [connection EXCEPT !.connecting = @ - 1]
          IN  connection' =
                IF ok
                THEN [c EXCEPT !.isConnected = TRUE,
                               !.healthCheckInterval = TRUE,
                               !.intervals = @ + 1,
                               !.reconnectAttempts = 0,
                               !.failedInRow = 0]
                ELSE HandleReconnect([c EXCEPT !.failedInRow = @ + 1])
    /\ UNCHANGED <<privateKey, isEnabled, config, stats, calls, frame, senders,
                   chain, clock, notifier, alerts, memeFilter, tracker>>

NextReconnect ==
    \/ ConnectionError
    \/ HealthCheckFires
    \/ HealthCheckReturns
    \/ ReconnectTimerFires
    \/ ConnectReturns

SpecReconnect == InitReconnect /\ [][NextReconnect]_vars

-----------------------------------------------------------------------------
(* The meme coin filter: isMemeTokenTransaction, addMemeTokenAddress,        *)
(* removeMemeTokenAddress on the module's MEME_COIN_ADDRESSES array.         *)

AddressInputs ==
    {Address(id, case) : id \in {"shib", "uni", "test"}, case \in {"lower", "mixed"}}
        \cup {NullAddress, ShortAddress}

\* !address || typeof address !== 'string'
NotAString(a) == a.id = "null"

\* address.startsWith('0x') && address.length === 42
HasAddressFormat(a) == a.id \notin {"null", "short"}

\* address.toLowerCase()
ToLowerCase(a) == [a EXCEPT !.case = "lower"]

Contains_CaseSensitive(list, a) == \E i \in 1..Len(list) : list[i] = a

\* MEME_COIN_ADDRESSES.some(addr => addr.toLowerCase() === normalizedAddress)
Contains(list, a) ==
    \E i \in 1..Len(list) : ToLowerCase(list[i]) = ToLowerCase(a)

\* isMemeAddress(address) of isMemeTokenTransaction
IsMemeAddress(list, a) == ~NotAString(a) /\ Contains(list, a)

StringArg(a) == [type |-> "string", values |-> <<a>>]
ArrayArg(as) == [type |-> "array", values |-> as]
ObjectArg(as) == [type |-> "object", values |-> as]
Args(items) == [present |-> TRUE, items |-> items]

ArgsInputs ==
    {NoArgs, Args(<<>>), Args(<<StringArg(ShortAddress)>>),
     Args(<<StringArg(Address("test", "mixed"))>>),
     Args(<<StringArg(Address("shib", "lower"))>>),
     Args(<<StringArg(ShortAddress), StringArg(ShortAddress),
            ArrayArg(<<Address("test", "lower"), Address("uni", "mixed")>>)>>),
     Args(<<ObjectArg(<<Address("shib", "mixed")>>)>>)}

DecodedTxInputs ==
    {[NullTx EXCEPT !.kind = k] : k \in {"null", "undefined", "string"}}
        \cup [kind : {"object"},
              name : {"none", "transfer", "swapExactTokensForTokens", "multicall",
                      "notAString"},
              args : ArgsInputs,
              to : {NullAddress, Address("shib", "lower"), Address("test", "mixed")}]

\* the loop over args of isMemeTokenTransaction: a string argument, an array
\* of strings or an object whose addresses extractAddressesFromObject finds
ArgHits(list, arg) ==
    \E i \in 1..Len(arg.values) :
        /\ HasAddressFormat(arg.values[i])
        /\ IsMemeAddress(list, arg.values[i])

\* checkNestedCalls(args)
CheckNestedCalls(list, args) ==
    /\ args.present
    /\ \E i \in 1..Len(args.items) :
          /\ args.items[i].type = "object"
          /\ \E j \in 1..Len(args.items[i].values) :
                ~NotAString(args.items[i].values[j])
                    /\ Contains(list, args.items[i].values[j])

\* the try block of isMemeTokenTransaction: "true", "false", or "TypeError"
\* for name.toLowerCase() on a name that is no string
MemeTokenTransactionBody(list, d) ==
    IF d.kind \notin {"object"} THEN "false"
    ELSE IF IsMemeAddress(list, d.to) THEN "true"
    ELSE IF d.args.present
            /\ \E i \in 1..Len(d.args.items) : ArgHits(list, d.args.items[i])
         THEN "true"
    ELSE CASE d.name = "none" -> "false"
           [] d.name = "notAString" -> "TypeError"
           [] d.name = "transfer" ->
                IF IsMemeAddress(list, d.to) THEN "true" ELSE "false"
           [] d.name = "swapExactTokensForTokens" ->
                IF /\ d.args.present
                   /\ Len(d.args.items) > 2
                   /\ d.args.items[3].type = "array"
                   /\ \E j \in 1..Len(d.args.items[3].values) :
                         IsMemeAddress(list, d.args.items[3].values[j])
                THEN "true" ELSE "false"
           [] d.name = "multicall" ->
                IF CheckNestedCalls(list, d.args) THEN "true" ELSE "false"
           [] OTHER -> "false"

IsMemeTokenTransaction_NoCatch(list, d) == MemeTokenTransactionBody(list, d)

\* isMemeTokenTransaction(decodedTx): the catch block returns false
IsMemeTokenTransaction(list, d) ==
    IF MemeTokenTransactionBody(list, d) = "TypeError"
    THEN "false"
    ELSE MemeTokenTransactionBody(list, d)

InitMemeFilter ==
    /\ ExecutorReady
    /\ OthersIdle

CheckMemeTokenTransaction ==
    /\ \E d \in DecodedTxInputs :
          memeFilter' = [memeFilter EXCEPT
                            !.op = "check", !.tx = d, !.arg = NullAddress,
                            !.ret = IsMemeTokenTransaction(memeFilter.addresses, d)]
    /\ UNCHANGED <<privateKey, isEnabled, config, stats, calls, frame, senders,
                   chain, clock, notifier, alerts, connection, tracker>>

AddMemeTokenAddress ==
    /\ \E a \in AddressInputs :
          memeFilter' = [memeFilter EXCEPT
              !.op = "add", !.arg = a, !.tx = NullTx,
              !.ret = IF NotAString(a) \/ ~HasAddressFormat(a) THEN "threw"
                      ELSE "undefined",
              !.addresses = IF /\ ~NotAString(a)
                               /\ HasAddressFormat(a)
                               /\ ~Contains(memeFilter.addresses, a)
                            THEN Append(@, a)
                            ELSE @]
    /\ UNCHANGED <<privateKey, isEnabled, config, stats, calls, frame, senders,
                   chain, clock, notifier, alerts, connection, tracker>>

RemoveMemeTokenAddress ==
    /\ \E a \in AddressInputs :
          LET updatedAddresses ==
                  SelectSeq(memeFilter.addresses,
                            LAMBDA addr : ToLowerCase(addr) # ToLowerCase(a))
          IN  memeFilter' =
                IF NotAString(a)
                THEN [memeFilter EXCEPT !.op = "remove", !.arg = a,
                                        !.tx = NullTx, !.ret = "false"]
                ELSE [memeFilter EXCEPT
                        !.op = "remove", !.arg = a, !.tx = NullTx,
                        !.addresses = updatedAddresses,
                        !.ret = IF Len(updatedAddresses) < Len(memeFilter.addresses)
                                THEN "true" ELSE "false"]
    /\ UNCHANGED <<privateKey, isEnabled, config, stats, calls, frame, senders,
                   chain, clock, notifier, alerts, connection, tracker>>

NextMemeFilter ==
    \/ CheckMemeTokenTransaction
    \/ AddMemeTokenAddress
    \/ RemoveMemeTokenAddress

SpecMemeFilter == InitMemeFilter /\ [][NextMemeFilter]_vars

-----------------------------------------------------------------------------
(* EnhancedWalletTracker.processTransaction with sendEnhancedAlert, on top   *)
(* of the NotificationService above.  The 'pending' listener is async, so    *)
(* several transactions are processed at once: each caller of Alerters is    *)
(* one processTransaction call, suspended while its alert is under way.      *)

MaxTransactions == 4

Transactions ==
    [fromTracked : BOOLEAN,
     to : {NullAddress, Address("wallet", "lower"), Address("shib", "mixed"),
           Address("test", "mixed")},
     name : {"none", "transfer", "unknown"}]

CheckTrackedWallets_Always(t) == TRUE

\* checkTrackedWallets(tx): a wallet of trackedWallets is tx.from or tx.to
CheckTrackedWallets(t) == t.fromTracked \/ t.to.id = "wallet"

\* decodeTransactionData(tx): null without data, else name, args: [], to
DecodeTransactionData(t) ==
    IF t.name = "none" THEN NullTx
    ELSE [kind |-> "object", name |-> t.name, args |-> Args(<<>>), to |-> t.to]

\* decodedTx ? isMemeTokenTransaction(decodedTx) : false
IsMemeToken(t) ==
    /\ DecodeTransactionData(t).kind = "object"
    /\ IsMemeTokenTransaction(memeFilter.addresses, DecodeTransactionData(t)) = "true"

InitTracker ==
    /\ ExecutorReady
    /\ senders = [c \in Callers |-> NoSender]
    /\ chain = [nextNonce |-> 0]
    /\ clock = StartTime
    /\ notifier \in
          [lastNotificationTime : {0}, rateLimitDelay : {RateLimitDelay},
           retryAttempts : {RetryAttempts},
           isEnabled : [telegram : BOOLEAN, discord : BOOLEAN]]
    /\ alerts = [a \in Alerters |-> NoAlert]
    /\ connection = Connected
    /\ memeFilter = [addresses |-> InitialMemeCoinAddresses, op |-> "none",
                     arg |-> NullAddress, tx |-> NullTx, ret |-> "none"]
    /\ tracker \in [stats : {NoStats}, notificationService : BOOLEAN,
                     processing : {[a \in Alerters |-> NoTransaction]}]

\* processTransaction(tx) from its entry to its return or to the await of
\* sendTransactionAlert inside sendEnhancedAlert
ProcessTransaction(a, t, data) ==
    /\ alerts[a].pc = "free"
    /\ tracker.stats.totalTransactionsProcessed < MaxTransactions
    /\ LET counted == [tracker.stats EXCEPT !.totalTransactionsProcessed = @ + 1]
           matched == [counted EXCEPT !.trackedWalletHits = @ + 1]
           meme == [matched EXCEPT !.memeTokenHits = @ + 1]
       IN  IF ~CheckTrackedWallets(t)
           THEN /\ tracker' = [tracker EXCEPT !.stats = counted]
                /\ UNCHANGED <<alerts, notifier>>
           ELSE IF ~IsMemeToken(t)
           THEN /\ tracker' = [tracker EXCEPT !.stats = matched]
                /\ UNCHANGED <<alerts, notifier>>
           ELSE IF ~tracker.notificationService
           THEN /\ tracker' = [tracker EXCEPT
                                  !.stats = [meme EXCEPT !.notificationsSent = @ + 1]]
                /\ UNCHANGED <<alerts, notifier>>
           ELSE /\ tracker' = [tracker EXCEPT !.stats = meme, !.processing[a] = t]
                /\ SendTransactionAlertCall(a, data)
    /\ UNCHANGED <<privateKey, isEnabled, config, stats, calls, frame, senders,
                   chain, clock, connection, memeFilter>>

\* sendTransactionAlert has returned to sendEnhancedAlert, which logs the
\* result inside its try / catch and returns; processTransaction then counts
\* the notification
AlertReturns(a) ==
    /\ alerts[a].pc = "returned"
    /\ alerts' = [alerts EXCEPT ![a] = NoAlert]
    /\ tracker' = [tracker EXCEPT !.stats.notificationsSent = @ + 1,
                                  !.processing[a] = NoTransaction]
    /\ UNCHANGED <<privateKey, isEnabled, config, stats, calls, frame, senders,
                   chain, clock, notifier, connection, memeFilter>>

NextTracker ==
    \/ \E a \in Alerters, t \in Transactions, data \in Data :
          ProcessTransaction(a, t, data)
    \/ \E a \in Alerters : AlertReturns(a)
    \/ \E a \in Alerters : SendReturns(a)
    \/ \E a \in Alerters : SleepEnds(a)
    \/ Tick

SpecTracker == InitTracker /\ [][NextTracker]_vars

-----------------------------------------------------------------------------
(* Properties *)

Broadcast == "sendTransaction" \in rpc

\* the call in progress was submitted with a request object
HasRequest == pc # "idle" /\ ~req.null

\* a step that submits a request to executeSwap
Submits == pc = "idle" /\ pc' # "idle"

InsufficientBalanceErrors == {"InsufficientETHBalance", "InsufficientTokenBalance"}

\* C1: a request with dryRun = true never has sendTransaction invoked for it,
\* whatever validation, balance verification and simulation answer.
C1_DryRunNeverBroadcasts ==
    (HasRequest /\ req.dryRun = "true") => ~Broadcast

\* C1 witness: a dryRun = true request got through simulation on an executor
\* with real trading enabled, and was not broadcast
C1_Witness ==
    /\ pc = "done" /\ HasRequest /\ req.dryRun = "true"
    /\ config.enableRealTrading /\ simulated = "ok" /\ ~Broadcast

\* C2 (as claimed): a request submitted while the emergency-stop flag is set
\* issues no network call and is rejected with the emergency-stop error.
C2_StoppedRequestRejected ==
    [][(Submits /\ config.emergencyStop) =>
          /\ rpc' = {}
          /\ pc' = "done"
          /\ result'.kind = "returned"
          /\ result'.error = "EmergencyStop"]_vars

\* C3 (as claimed): a request is re-checked immediately before the broadcast,
\* so sendTransaction is never invoked while the emergency-stop flag is set.
C3_NoBroadcastWhileStopped ==
    [][(~Broadcast /\ Broadcast') => ~config.emergencyStop]_vars

\* C4 (as claimed): with real trading disabled every dryRun = false request
\* ends with the RealTradingDisabled error, and nothing is broadcast.
C4_Original ==
    (~config.enableRealTrading /\ pc = "done" /\ HasRequest /\ req.dryRun = "false")
        => (result.error = "RealTradingDisabled" /\ ~Broadcast)

\* C4 (amended): with real trading disabled sendTransaction is never invoked,
\* and every dryRun = false request that passes the gate, validation, the
\* balance and allowance verification and the simulation ends with the
\* RealTradingDisabled error.
C4_RealTradingDisabled ==
    ~config.enableRealTrading =>
        /\ ~Broadcast
        /\ (pc = "done" /\ HasRequest /\ req.dryRun = "false" /\ simulated = "ok")
              => result = Returned(FALSE, TRUE, "RealTradingDisabled")

\* C4 witness: such a request was turned away at the execution decision
C4_Witness ==
    /\ ~config.enableRealTrading /\ pc = "done" /\ HasRequest
    /\ req.dryRun = "false" /\ simulated = "ok"
    /\ result.error = "RealTradingDisabled" /\ ~Broadcast

\* C5: when estimateGas fails the call ends with the simulation-failed error
\* and sendTransaction is not invoked for it.
C5_SimulationFailureAborts ==
    simulated = "reverted" =>
        /\ pc = "done"
        /\ result = Returned(FALSE, TRUE, "SwapWouldFail")
        /\ ~Broadcast

\* C5 witness: estimateGas failed for a dryRun = false request on an executor
\* with real trading enabled
C5_Witness ==
    /\ simulated = "reverted" /\ pc = "done" /\ HasRequest
    /\ req.dryRun = "false" /\ config.enableRealTrading

\* C6 (as claimed): totalSwapsExecuted + totalSwapsFailed <= totalSwapsRequested
\* after any sequence of calls.
C6_ExecutedPlusFailedWithinRequested ==
    stats.totalSwapsExecuted + stats.totalSwapsFailed <= stats.totalSwapsRequested

\* C7 (as claimed): executeSwap always completes by returning a result object
\* with a success field, and never throws to its caller.
C7_AlwaysReturnsResult ==
    pc = "done" => result.kind = "returned"

\* C8 (as claimed): a valid dryRun = true request with sufficient balance and
\* allowance and a successful simulation returns success = true, dryRun = true
\* and is not broadcast.
C8_DryRunSucceeds ==
    (pc = "done" /\ HasRequest /\ req.dryRun = "true" /\ simulated = "ok")
        => (result.kind = "returned" /\ result.success /\ result.dryRun /\ ~Broadcast)

\* C9 (as claimed): emergencyStop sets the flag and every valid request
\* submitted while it is set is rejected with the emergency-stop error;
\* resumeTrading clears it and a valid request is then no longer rejected by
\* the emergency-stop gate.
C9_StopRejectsResumeRestores ==
    [][/\ EmergencyStop => config'.emergencyStop
       /\ ResumeTrading => ~config'.emergencyStop
       /\ (Submits /\ ValidateSwapParameters(req') = "ok") =>
             IF config.emergencyStop
             THEN pc' = "done" /\ result'.error = "EmergencyStop"
             ELSE result'.error # "EmergencyStop"]_vars

\* C10: a request is simulated or broadcast only after its input asset's
\* balance, and for a token input the router's allowance, was read as at least
\* the required amount; a balance read below it ends in the insufficient-balance
\* error (the allowance is then not looked at), and an allowance read below it
\* ends in the insufficient-allowance error.
C10_VerifiedBeforeSimulation ==
    /\ ("estimateGas" \in rpc \/ Broadcast) =>
          /\ required > 0
          /\ balRead >= required
          /\ req.tokenIn # "ETH" => allowRead >= required
    /\ (pc # "idle" /\ balRead >= 0 /\ required >= 0 /\ balRead < required) =>
          /\ pc = "done"
          /\ result.kind = "returned" /\ ~result.success
          /\ result.error \in InsufficientBalanceErrors
          /\ allowRead = -1
    /\ (pc # "idle" /\ allowRead >= 0 /\ allowRead < required) =>
          /\ pc = "done"
          /\ balRead >= required
          /\ result = Returned(FALSE, TRUE, "InsufficientAllowance")

\* C10 witness: a token request whose balance and allowance were read as
\* sufficient is being simulated
C10_Witness ==
    /\ pc = "estimateGas" /\ req.tokenIn = "SHIB"
    /\ balRead >= required /\ allowRead >= required /\ required > 0

\* the request in progress has a native input above config.maxTransactionValueETH
OverValueLimit ==
    /\ HasRequest
    /\ req.tokenIn = "ETH"
    /\ ~ParseUnitsThrows(req.amountIn, UnitDecimals)
    /\ ParseUnits(req.amountIn, UnitDecimals) > MaxTransactionValueETH

\* C11 (as claimed): a request with a native input above the configured
\* maximum transaction value is rejected before any I/O: it issues no network
\* call, so it reaches neither simulation nor broadcast.
C11_ValueLimitEnforced ==
    OverValueLimit => rpc = {}

\* the request in progress gives a slippagePercent outside [0, 100]
SlippageOutOfRange ==
    /\ HasRequest
    /\ req.slippagePercent # -1
    /\ (req.slippagePercent < 0 \/ req.slippagePercent > 10000)

\* C12 (as claimed): a request whose slippagePercent is outside [0, 100] is
\* rejected before any I/O, and no transaction is built, simulated or broadcast
\* with it.
C12_SlippageRangeEnforced ==
    SlippageOutOfRange => (rpc = {} /\ ~tx.built)

\* C13 (as claimed): no transaction is broadcast when the gas price the network
\* reports exceeds config.maxGasPriceGwei.
C13_GasPriceLimitEnforced ==
    Broadcast => gasPrice <= MaxGasPriceGwei

\* C18 (as claimed): the value of a built transaction is amountIn exactly when
\* the request's input is the native sentinel 'ETH', and zero for every token
\* input, the WETH address included.
C18_ValueOnlyForNativeInput ==
    tx.built =>
        /\ (tx.value = tx.amountIn) <=> (req.tokenIn = "ETH")
        /\ req.tokenIn # "ETH" => tx.value = 0

\* wait() answered with a receipt: the swap is confirmed
Confirms == pc = "wait" /\ receipt' \in {"receipt", "noEffectiveGasPrice"}

\* C19 (as claimed): a confirmed swap adds 1 to totalSwapsExecuted, the swapped
\* amount to totalVolumeETH and the gas cost to totalGasSpentETH, sets
\* lastSwapTime, and the call returns success.
C19_ConfirmedSwapRecorded ==
    [][Confirms =>
          /\ stats'.totalSwapsExecuted = stats.totalSwapsExecuted + 1
          /\ stats'.totalVolumeETH = stats.totalVolumeETH + tx.amountIn
          /\ stats'.totalGasSpentETH > stats.totalGasSpentETH
          /\ stats'.lastSwapTime = "set"
          /\ result'.kind = "returned" /\ result'.success]_vars

\* the errors a call can end with before sendTransaction is invoked
PreBroadcastErrors ==
    {"NotEnabled", "EmergencyStop", "TypeError", "MissingParameters",
     "InvalidTokenIn", "InvalidTokenOut", "SameToken", "InvalidAmountFormat",
     "RpcError", "NumericFault", "InsufficientETHBalance",
     "InsufficientTokenBalance", "InsufficientAllowance", "EncodeError",
     "SwapWouldFail", "ReferenceError", "RealTradingDisabled"}

\* C20 (as claimed): a failure after sendTransaction was invoked adds 1 to
\* totalSwapsFailed and returns a result that no failure before the broadcast
\* returns.
C20_PostBroadcastFailureDistinct ==
    [][(Broadcast /\ pc # "done" /\ pc' = "done" /\ ~result'.success) =>
          /\ stats'.totalSwapsFailed = stats.totalSwapsFailed + 1
          /\ result'.kind = "returned"
          /\ \A e \in PreBroadcastErrors : result' # CatchResult(req, e)]_vars

\* the call in progress asks to swap an asset for itself
SameTokenRequest == HasRequest /\ req.tokenIn = req.tokenOut

WellFormedAsset(t) == t = "ETH" \/ IsAddress(t)

\* the call in progress was turned away by the checks that precede validation
GateRejected == result.error \in {"NotEnabled", "EmergencyStop"}

Validated == pc = "validated"

MissingField(r) ==
    r.tokenIn = "none" \/ r.tokenOut = "none" \/ r.amountIn = "none"

\* a decimal literal of at most UnitDecimals fractional digits, above zero
PositiveAmount(a) ==
    IsDecimal(a) /\ Places(a) <= UnitDecimals /\ Mantissa(a) > 0

\* C15: validateSwapParameters rejects a request that lacks a required field
\* (missing-parameters error), whose tokenIn or tokenOut is neither 'ETH' nor
\* an address (invalid-address error), or whose amountIn is zero, negative or
\* no parsable decimal; it accepts every request with well-formed, distinct
\* assets and a positive amount.
C15_ValidatorRejectsAndAccepts ==
    (Validated /\ ~req.null) =>
        /\ MissingField(req) =>
              (result.kind = "thrown" /\ result.error = "MissingParameters")
        /\ (~MissingField(req)
            /\ ~(WellFormedAsset(req.tokenIn) /\ WellFormedAsset(req.tokenOut))) =>
              (result.kind = "thrown"
               /\ result.error \in {"InvalidTokenIn", "InvalidTokenOut"})
        /\ (~MissingField(req) /\ ~PositiveAmount(req.amountIn)) =>
              result.kind = "thrown"
        /\ (~MissingField(req)
            /\ WellFormedAsset(req.tokenIn) /\ WellFormedAsset(req.tokenOut)
            /\ req.tokenIn # req.tokenOut
            /\ PositiveAmount(req.amountIn)) =>
              result.kind = "returned"

C15_Witness ==
    /\ Validated
    /\ HasRequest
    /\ req.tokenIn = "ETH" /\ req.tokenOut = "SHIB"
    /\ req.amountIn = "-1"
    /\ result.kind = "thrown"
    /\ result.error = "InvalidAmountFormat"

\* the errors validateSwapParameters gives for an amountIn that does not parse
UnparsableAmountErrors ==
    {ValidateSwapParameters(r) :
        r \in {i \in ValidatorInputs \ {NullReq} :
                 /\ ~MissingField(i)
                 /\ WellFormedAsset(i.tokenIn) /\ WellFormedAsset(i.tokenOut)
                 /\ i.tokenIn # i.tokenOut
                 /\ ParseUnitsThrows(i.amountIn, UnitDecimals)}}

\* C16 (as claimed): the validator reports the first violated rule in the
\* order asset well-formedness, distinct assets, positive amount, and a zero
\* or negative amount gets an error that an unparsable amount does not get.
C16_FirstViolatedRuleDistinct ==
    (Validated /\ ~req.null /\ ~MissingField(req)) =>
        /\ ~(WellFormedAsset(req.tokenIn) /\ WellFormedAsset(req.tokenOut)) =>
              result.error \in {"InvalidTokenIn", "InvalidTokenOut"}
        /\ (WellFormedAsset(req.tokenIn) /\ WellFormedAsset(req.tokenOut)
            /\ req.tokenIn = req.tokenOut) =>
              result.error = "SameToken"
        /\ (WellFormedAsset(req.tokenIn) /\ WellFormedAsset(req.tokenOut)
            /\ req.tokenIn # req.tokenOut
            /\ ~ParseUnitsThrows(req.amountIn, UnitDecimals)
            /\ ParseUnits(req.amountIn, UnitDecimals) <= 0) =>
              (result.kind = "thrown" /\ result.error \notin UnparsableAmountErrors)

\* buildSwapTransaction, called on its own, has answered
Quoted == pc = "quoted"

\* floor(a * k / 10000) for a >= 0 and 0 <= k <= 10000, without a product
\* larger than a * 1 or 10^8
FloorOfShare(a, k) ==
    (a \div 10000) * k + ((a % 10000) * k) \div 10000

\* floor(estimatedOutput * (1 - slippage / 100)) in the smallest unit
ExactMinOutput(params) ==
    FloorOfShare(ParseUnits(params.amountIn, UnitDecimals),
                 10000 - SlippageOf(params))

\* C17 (as claimed): for every amountIn and every slippage in [0, 100] the
\* transaction is built and its amountOutMinimum is
\* floor(estimatedOutput * (1 - slippage / 100)) at the unit's precision: not
\* above the exact product, not negative, not above estimatedOutput.
C17_MinOutputIsFloor ==
    Quoted =>
        /\ tx.built
        /\ tx.amountOutMinimum = ExactMinOutput(req)
        /\ tx.amountOutMinimum >= 0
        /\ tx.amountOutMinimum <= tx.amountIn

\* C21 (as claimed): no step of an executeSwap call counts the call both as
\* executed and as failed (a call has one terminal step, so
\* totalSwapsExecuted + totalSwapsFailed grows by at most 1 per call), and no
\* counter ever decreases.
C21_CountedOncePerOutcome ==
    [][/\ (stats'.totalSwapsExecuted + stats'.totalSwapsFailed)
            - (stats.totalSwapsExecuted + stats.totalSwapsFailed) <= 1
       /\ stats'.totalSwapsRequested >= stats.totalSwapsRequested
       /\ stats'.totalSwapsExecuted >= stats.totalSwapsExecuted
       /\ stats'.totalSwapsFailed >= stats.totalSwapsFailed
       /\ stats'.totalVolumeETH >= stats.totalVolumeETH
       /\ stats'.totalGasSpentETH >= stats.totalGasSpentETH]_vars

\* C24 (as claimed): with a missing or malformed signing key the executor is
\* never enabled, and every executeSwap call returns a failure result without
\* any RPC call.
C24_BadKeyDisables ==
    privateKey # "valid" =>
        /\ ~isEnabled
        /\ rpc = {}
        /\ pc = "done" => (result.kind = "returned" /\ ~result.success)

\* C25: the emergency-stop flag starts cleared; emergencyStop() sets it and
\* resumeTrading() clears it, whatever it was; no other step, of executeSwap
\* in particular, changes the flag or the real-trading flag.
C25_GovernorChangesOnlyByOperator ==
    /\ ~config.emergencyStop
    /\ [][/\ config' # config => (EmergencyStop \/ ResumeTrading)
          /\ EmergencyStop => config'.emergencyStop
          /\ ResumeTrading => ~config'.emergencyStop
          /\ config'.enableRealTrading = config.enableRealTrading]_vars

\* C25 witness: a call was rejected by the emergency stop and has returned;
\* the flag is still set
C25_Witness ==
    /\ config.emergencyStop
    /\ pc = "idle"
    /\ stats.totalSwapsFailed > 0
    /\ isEnabled

\* C26: a request without the dryRun field never has sendTransaction invoked
\* for it, also when real trading is enabled.
C26_MissingDryRunNeverBroadcasts ==
    (HasRequest /\ req.dryRun = "none" /\ config.enableRealTrading) => ~Broadcast

\* C26 witness: a request without dryRun got through simulation to the
\* execution decision with real trading enabled
C26_Witness ==
    /\ pc = "done" /\ HasRequest /\ req.dryRun = "none"
    /\ config.enableRealTrading
    /\ "getFeeData" \in rpc /\ simulated = "ok"
    /\ ~Broadcast

\* C27 (as claimed): a call made while the executor is not enabled or the
\* emergency stop is active ends by throwing the error that names the cause.
C27_GateFailureThrows ==
    (pc = "done" /\ rpc = {} /\ HasRequest /\ (~isEnabled \/ config.emergencyStop)
     /\ result.error \in {"NotEnabled", "EmergencyStop"}) =>
        result.kind = "thrown"

\* C28: totalSwapsRequested, totalSwapsExecuted and totalSwapsFailed are never
\* negative and totalSwapsExecuted <= totalSwapsRequested.
C28_ExecutedWithinRequested ==
    /\ stats.totalSwapsRequested >= 0
    /\ stats.totalSwapsExecuted >= 0
    /\ stats.totalSwapsFailed >= 0
    /\ stats.totalSwapsExecuted <= stats.totalSwapsRequested

\* C28 witness: a swap was executed, and a call was rejected before it was
\* counted as requested
C28_Witness ==
    /\ stats.totalSwapsExecuted > 0
    /\ stats.totalSwapsFailed > 0
    /\ stats.totalSwapsExecuted = stats.totalSwapsRequested

\* C22 (as claimed): no two transactions of concurrent executeSwap calls are
\* handed to the node with the same nonce.
C22_NoncesDistinct ==
    \A a, b \in Callers :
        (a # b /\ senders[a].sent # -1 /\ senders[b].sent # -1) =>
            senders[a].sent # senders[b].sent

\* C23 (as claimed): a call that waits for the confirmation of its broadcast
\* transaction eventually returns, whether or not the receipt arrives.
C23_WaitEnds ==
    \A c \in Callers : (senders[c].pc = "wait") ~> (senders[c].pc = "done")

\* C29 (as claimed): every call of sendTransactionAlert that has returned,
\* a rate-limited one included, returned an object with a delivery status for
\* telegram and for discord, and a failed Telegram delivery was followed by
\* the Discord attempt.
HasDeliveryStatuses(al) == al.ret = "results"

C29_AlwaysReturnsStatuses ==
    \A a \in Alerters :
        alerts[a].pc = "returned" =>
            /\ HasDeliveryStatuses(alerts[a])
            /\ (alerts[a].telegram = "error" /\ notifier.isEnabled.discord) =>
                   alerts[a].discord # "unsent"

\* a step in which alert a is a call of sendTransactionAlert that starts
Called(a) == alerts[a].pc = "free" /\ alerts'[a].pc # "free"

\* C30: a call of sendTransactionAlert is rate-limited exactly when it comes
\* less than rateLimitDelay after the last accepted call; an accepted call is
\* at least rateLimitDelay after every earlier accepted call and becomes the
\* last accepted one; a rate-limited call returns reason 'rate_limited' at
\* once, attempts no delivery on any platform and leaves the last-accepted
\* timestamp unchanged.
C30_RateLimit ==
    [][\A a \in Alerters :
         Called(a) =>
            IF clock - notifier.lastNotificationTime < notifier.rateLimitDelay
            THEN /\ alerts'[a].pc = "returned"
                 /\ alerts'[a].ret = "rate_limited"
                 /\ alerts'[a].sends = 0
                 /\ alerts'[a].delivered = {}
                 /\ alerts'[a].telegram = "unsent"
                 /\ alerts'[a].discord = "unsent"
                 /\ notifier'.lastNotificationTime = notifier.lastNotificationTime
            ELSE /\ alerts'[a].ret # "rate_limited"
                 /\ notifier'.lastNotificationTime = clock]_vars

\* a rate-limited call has returned, and a later call, rateLimitDelay after
\* the first accepted one, was accepted and delivered
C30_Witness ==
    /\ alerts["a1"].pc = "returned"
    /\ alerts["a1"].ret = "rate_limited"
    /\ alerts["a2"].ret = "results"
    /\ alerts["a2"].delivered = Platforms
    /\ notifier.lastNotificationTime >= StartTime + notifier.rateLimitDelay
    /\ notifier.rateLimitDelay = RateLimitDelay
    /\ clock - notifier.lastNotificationTime < notifier.rateLimitDelay

\* C31 (as claimed): a platform whose status in the returned results is
\* "sent" (sendToTelegram / sendToDiscord returned normally) had one send
\* attempt that succeeded, whatever retryAttempts updatePreferences has set.
C31_SentOnlyIfDelivered ==
    \A a \in Alerters : \A p \in Platforms :
        (alerts[a].pc = "returned" /\ alerts[a][p] = "sent") =>
            p \in alerts[a].delivered

\* C32 (as claimed): the attempt counter never exceeds maxReconnectAttempts
\* and the tracker never makes more than maxReconnectAttempts failed
\* reconnection attempts in a row.
C32_AtMostMaxFailedAttempts ==
    /\ connection.reconnectAttempts <= MaxReconnectAttempts
    /\ connection.failedInRow <= MaxReconnectAttempts

\* a step in which handleReconnect sets a reconnection timer
SchedulesReconnect == connection'.timers > connection.timers

\* C33 (as claimed): the delay of each further consecutive reconnection
\* attempt is strictly larger than the delay of the attempt before it.
C33_DelayGrows ==
    [][(SchedulesReconnect /\ connection.reconnectAttempts >= 1) =>
           connection'.lastDelay > connection.lastDelay]_vars

\* C40 (as claimed): at most one reconnection timer is pending and at most
\* one health-check interval is active.
C40_OneTimerOneInterval ==
    /\ connection.timers <= 1
    /\ connection.intervals <= 1

\* address a is in the list, letter case ignored
Listed(list, a) ==
    a.id # "null" /\ \E i \in 1..Len(list) : list[i].id = a.id

\* a call of the meme coin filter has just returned
FilterCall(op) == memeFilter' # memeFilter /\ memeFilter'.op = op

\* a decodedTx that names its target and carries no arguments
TargetOnly(d) == d.kind = "object" /\ (~d.args.present \/ d.args.items = <<>>)

IncompleteInput(list, d) ==
    \/ d.kind # "object"
    \/ ~d.args.present
    \/ /\ d.name = "none"
       /\ \A i \in 1..Len(d.args.items) :
             \A j \in 1..Len(d.args.items[i].values) :
                 ~Listed(list, d.args.items[i].values[j])

\* C35 (as claimed): isMemeTokenTransaction does not throw, and returns false
\* for every input that is null, undefined, no object, an empty object, an
\* object without args, or an object without name whose args hold no listed
\* address.
C35_Original ==
    [][FilterCall("check") =>
          /\ memeFilter'.ret \in {"true", "false"}
          /\ IncompleteInput(memeFilter.addresses, memeFilter'.tx) =>
                 memeFilter'.ret = "false"]_vars

\* C35 (amended): isMemeTokenTransaction does not throw, and returns false
\* for every such input whose to is not a listed address.
C35_FalseForIncompleteInput ==
    [][FilterCall("check") =>
          /\ memeFilter'.ret \in {"true", "false"}
          /\ (/\ IncompleteInput(memeFilter.addresses, memeFilter'.tx)
              /\ ~Listed(memeFilter.addresses, memeFilter'.tx.to)) =>
                 memeFilter'.ret = "false"]_vars

\* a call whose name is no string and that has no args has returned false
C35_Witness ==
    /\ memeFilter.op = "check"
    /\ memeFilter.tx.kind = "object"
    /\ memeFilter.tx.name = "notAString"
    /\ ~memeFilter.tx.args.present
    /\ memeFilter.tx.to = NullAddress
    /\ memeFilter.ret = "false"

\* C36 (as claimed): a failure result carries the dryRun mode of its
\* request: a request submitted with dryRun = false that fails returns a
\* result with dryRun = false.
C36_FailureKeepsDryRunMode ==
    (/\ pc = "done"
     /\ HasRequest
     /\ result.kind = "returned"
     /\ ~result.success
     /\ req.dryRun = "false") => result.dryRun = FALSE

\* C37 (as claimed): the transaction that buildSwapTransaction builds never
\* has the same router address for tokenIn and tokenOut.
C37_BuiltAssetsDiffer == tx.built => tx.tokenIn # tx.tokenOut

\* C38 (as claimed): notificationsSent grows only in a step in which an alert
\* that was delivered to at least one platform returns.
C38_CountsDeliveredOnly ==
    [][tracker'.stats.notificationsSent > tracker.stats.notificationsSent =>
          \E a \in Alerters :
              /\ alerts[a].pc = "returned"
              /\ alerts'[a].pc = "free"
              /\ alerts[a].delivered # {}]_vars

\* the target of transaction t is a listed meme coin and t carries data
TargetsMemeCoin(t) ==
    t.name # "none" /\ Listed(memeFilter.addresses, t.to)

\* C39: notificationsSent <= memeTokenHits <= trackedWalletHits <=
\* totalTransactionsProcessed, also with several transactions in progress,
\* and every alert under way belongs to a transaction that involves a tracked
\* wallet and a meme coin.
C39_StatsOrdered ==
    /\ tracker.stats.notificationsSent <= tracker.stats.memeTokenHits
    /\ tracker.stats.memeTokenHits <= tracker.stats.trackedWalletHits
    /\ tracker.stats.trackedWalletHits <= tracker.stats.totalTransactionsProcessed
    /\ \A a \in Alerters :
          alerts[a].pc # "free" =>
              /\ tracker.processing[a].fromTracked
                     \/ tracker.processing[a].to.id = "wallet"
              /\ TargetsMemeCoin(tracker.processing[a])

\* two transactions are in progress at once, and each counter is strictly
\* below the next
C39_Witness ==
    /\ \A a \in Alerters : alerts[a].pc \in {"send", "sleep"}
    /\ tracker.stats.notificationsSent = 0
    /\ tracker.stats.memeTokenHits = 2
    /\ tracker.stats.trackedWalletHits = 3
    /\ tracker.stats.totalTransactionsProcessed = 4

====
